---- MODULE Spec2Model ----
(***************************************************************************)
(* ekstrakt-z-ztmu: main() of src/src/main.rs as a state machine.          *)
(*                                                                         *)
(* Four resources are fetched in parallel (rayon par_iter over `files`,    *)
(* collected into a Result<Vec<_>, _>), then the dictionary is loaded and  *)
(* the three binary feeds are decoded and flattened one after the other,   *)
(* and finally the four tables are reported.                               *)
(*                                                                         *)
(* Option<T> / MessageField<T> values are sequences of length 0 or 1.      *)
(* f32 values are integers (0 stands for 0.0).                             *)
(***************************************************************************)
EXTENDS Integers, Sequences, FiniteSets, TLC

VARIABLES
    pc,                     \* position of main
    result,                 \* what main returned: "Running", "Ok", "Err"
    task,                   \* task[i]: state of the parallel fetch of files[i]
    data,                   \* data[i]: the buffer `data` of fetch i
    saved_error,            \* the error kept by collect::<Result<_, _>>, if any
    d,                      \* the collected Vec<Vec<u8>>
    parsed,                 \* parsed[f]: outcome of parse_from_bytes for feed f
    vehicle_dictionary_df,
    feeds_df,
    trip_updates_df,
    vehicle_positions_df,
    cols,                   \* column vectors of the table being built
    idx,                    \* position of the running `for entity in &feed.entity`
    stdout,
    stderr

vars == <<pc, result, task, data, saved_error, d, parsed, vehicle_dictionary_df,
          feeds_df, trip_updates_df, vehicle_positions_df, cols, idx, stdout, stderr>>

----------------------------------------------------------------------------
(* Bounds *)

\* chunks the server sends for one resource (calls of the write callback)
NumChunks == 2

\* longest entity list of a decoded feed
MaxEntities == 2

\* longest stop_time_update list of a TripUpdate
MaxStops == 1

----------------------------------------------------------------------------
(* Option / Result *)

None == << >>

Some(x) == << x >>

IsSome(o) == Len(o) = 1

Unwrap(o) == o[1]

UnwrapOr(o, dflt) == IF IsSome(o) THEN o[1] ELSE dflt

Ok(v) == [ok |-> TRUE, val |-> v]

Err(e) == [ok |-> FALSE, err |-> e]

SeqsUpTo(S, n) == UNION {[1..k -> S] : k \in 0..n}

----------------------------------------------------------------------------
(* The resources and the parallel fetch *)

files == <<"feeds.pb", "trip_updates.pb", "vehicle_positions.pb", "vehicle_dictionary.csv">>

Tasks == 1..Len(files)

Url(file) == <<"https://www.ztm.poznan.pl/pl/dla-deweloperow/getGtfsRtFile?file=", file>>

\* what the server sends for a url: NumChunks chunks, told apart by the
\* resource they belong to and their position in it
ServerBody(url) == [k \in 1..NumChunks |-> <<url[2], k>>]

\* faulty variant of ExtendFromSlice: the new bytes go in front of the buffer
ExtendAtFront(buf, newdata) == <<newdata>> \o buf

\* data.extend_from_slice(newdata)
ExtendFromSlice(buf, newdata) == Append(buf, newdata)

Terminal == {"ok", "err", "skipped"}

\* faulty variant of AllJoined: collect() returns with the first finished item
AnyJoined == \E i \in Tasks : task[i] \in Terminal

\* collect() returns once every item has been produced or given up
AllJoined == \A i \in Tasks : task[i] \in Terminal

\* faulty variant of Collect: a failed fetch counts as an empty payload
CollectIgnoringErrors == Ok([i \in Tasks |-> data[i]])

\* the value of `.collect::<Result<Vec<_>, _>>()`
Collect ==
    IF saved_error # None
    THEN Err(Unwrap(saved_error))
    ELSE Ok([i \in Tasks |-> data[i]])

Init ==
    /\ pc = "fetch"
    /\ result = "Running"
    /\ task = [i \in Tasks |-> "pending"]
    /\ data = [i \in Tasks |-> << >>]
    /\ saved_error = None
    /\ d = << >>
    /\ parsed = [f \in {"feeds", "trip_updates", "vehicle_positions"} |->
                    [state |-> "none", entity |-> << >>]]
    /\ vehicle_dictionary_df = << >>
    /\ feeds_df = << >>
    /\ trip_updates_df = << >>
    /\ vehicle_positions_df = << >>
    /\ cols = << >>
    /\ idx = 0
    /\ stdout = << >>
    /\ stderr = << >>

Unfetched == <<d, parsed, vehicle_dictionary_df, feeds_df, trip_updates_df,
               vehicle_positions_df, cols, idx, stdout, stderr>>

\* a worker picks item i and enters fetch_ztm_data(files[i]); once an error
\* has been seen the remaining items are no longer started
StartFetch(i) ==
    /\ pc = "fetch"
    /\ task[i] = "pending"
    /\ saved_error = None
    /\ task' = [task EXCEPT ![i] = "running"]
    /\ data' = [data EXCEPT ![i] = << >>]
    /\ UNCHANGED <<pc, result, saved_error>>
    /\ UNCHANGED Unfetched

\* an item not yet started when the collection has already failed is dropped
SkipFetch(i) ==
    /\ pc = "fetch"
    /\ task[i] = "pending"
    /\ saved_error # None
    /\ task' = [task EXCEPT ![i] = "skipped"]
    /\ UNCHANGED <<pc, result, data, saved_error>>
    /\ UNCHANGED Unfetched

\* the write callback of transfer i receives the next chunk
WriteFunction(i) ==
    /\ pc = "fetch"
    /\ task[i] = "running"
    /\ Len(data[i]) < NumChunks
    /\ data' = [data EXCEPT
                  ![i] = ExtendFromSlice(data[i], ServerBody(Url(files[i]))[Len(data[i]) + 1])]
    /\ UNCHANGED <<pc, result, task, saved_error>>
    /\ UNCHANGED Unfetched

\* transfer.perform() returns Ok and fetch_ztm_data returns Ok(data)
FetchOk(i) ==
    /\ pc = "fetch"
    /\ task[i] = "running"
    /\ Len(data[i]) = NumChunks
    /\ task' = [task EXCEPT ![i] = "ok"]
    /\ UNCHANGED <<pc, result, data, saved_error>>
    /\ UNCHANGED Unfetched

\* easy.url, write_function or perform return a curl::Error: fetch_ztm_data
\* returns Err, the buffer is dropped, the first error is the one kept
FetchErr(i) ==
    /\ pc = "fetch"
    /\ task[i] = "running"
    /\ task' = [task EXCEPT ![i] = "err"]
    /\ data' = [data EXCEPT ![i] = << >>]
    /\ saved_error' = IF saved_error = None THEN Some(files[i]) ELSE saved_error
    /\ UNCHANGED <<pc, result>>
    /\ UNCHANGED Unfetched

\* collect() returns and `?` is applied to it
Join ==
    /\ pc = "fetch"
    /\ AllJoined
    /\ IF Collect.ok
       THEN /\ d' = Collect.val
            /\ pc' = "dict"
            /\ UNCHANGED result
       ELSE /\ result' = "Err"
            /\ pc' = "done"
            /\ UNCHANGED d
    /\ UNCHANGED <<task, data, saved_error, parsed, vehicle_dictionary_df, feeds_df,
                   trip_updates_df, vehicle_positions_df, cols, idx, stdout, stderr>>

----------------------------------------------------------------------------
(* The decoded feed (gtfs_realtime: FeedMessage, FeedEntity, ...) *)

\* entity.id(): the getter gives "" for an unset id
EntityId(entity) == UnwrapOr(entity.id, "")

\* pos.latitude(), pos.longitude(): the getters give 0.0 for an unset field
Latitude(pos) == UnwrapOr(pos.latitude, 0)

Longitude(pos) == UnwrapOr(pos.longitude, 0)

FeedEntity(id, tu, veh, alert) ==
    [id |-> id, trip_update |-> tu, vehicle |-> veh, alert |-> alert]

TripDescriptor(trip_id, route_id, start_time, start_date) ==
    [trip_id |-> trip_id, route_id |-> route_id,
     start_time |-> start_time, start_date |-> start_date]

TripUpdate(trip, n) ==
    [trip |-> trip, stop_time_update |-> [k \in 1..n |-> "stop_time_update"]]

VehicleDescriptor(id, label) == [id |-> id, label |-> label]

Position(lat, lon, bearing, speed) ==
    [latitude |-> lat, longitude |-> lon, bearing |-> bearing, speed |-> speed]

VehiclePosition(veh, pos, trip) == [vehicle |-> veh, position |-> pos, trip |-> trip]

----------------------------------------------------------------------------
(* Tables (polars DataFrame): a sequence of named columns *)

Column(name, values) == [name |-> name, values |-> values]

ColumnNames(df) == [k \in 1..Len(df) |-> df[k].name]

Height(df) == IF df = << >> THEN 0 ELSE Len(df[1].values)

\* DataFrame::new behind df!: columns of unequal length are an error
DfNew(columns) ==
    IF \A j, k \in 1..Len(columns) : Len(columns[j].values) = Len(columns[k].values)
    THEN Ok(columns)
    ELSE Err("ShapeMismatch")

\* df.column(name)
DfColumn(df, name) ==
    IF \E k \in 1..Len(df) : df[k].name = name
    THEN Ok((CHOOSE k \in 1..Len(df) : df[k].name = name))
    ELSE Err("ColumnNotFound")

\* faulty variant of ErrorDf: the table has a second column
ErrorDfWithDetail(msg) == DfNew(<<Column("error", <<msg>>), Column("detail", <<"">>)>>)

\* the table of the Err arm of a feed: df!("error" => [msg])
ErrorDf(msg) == DfNew(<<Column("error", <<msg>>)>>)

RECURSIVE SumSeq(_)
SumSeq(s) == IF s = << >> THEN 0 ELSE s[1] + SumSeq(Tail(s))

\* column.mean_reduce(): sum and count of the values (null for no values)
MeanReduce(values) == IF values = << >> THEN None ELSE Some(<<SumSeq(values), Len(values)>>)

----------------------------------------------------------------------------
(* The three flatteners: the vectors before the loop, one iteration, df! *)

FeedsNew ==
    [entity_ids |-> << >>, has_trip_update |-> << >>,
     has_vehicle_position |-> << >>, has_alert |-> << >>]

\* faulty variant of FeedsPush: an entity with none of the variants is skipped
FeedsPushSkippingEmpty(c, entity) ==
    IF IsSome(entity.trip_update) \/ IsSome(entity.vehicle) \/ IsSome(entity.alert)
    THEN [entity_ids |-> Append(c.entity_ids, EntityId(entity)),
          has_trip_update |-> Append(c.has_trip_update, IsSome(entity.trip_update)),
          has_vehicle_position |-> Append(c.has_vehicle_position, IsSome(entity.vehicle)),
          has_alert |-> Append(c.has_alert, IsSome(entity.alert))]
    ELSE c

FeedsPush(c, entity) ==
    [entity_ids |-> Append(c.entity_ids, EntityId(entity)),
     has_trip_update |-> Append(c.has_trip_update, IsSome(entity.trip_update)),
     has_vehicle_position |-> Append(c.has_vehicle_position, IsSome(entity.vehicle)),
     has_alert |-> Append(c.has_alert, IsSome(entity.alert))]

FeedsDf(c) ==
    DfNew(<<Column("entity_id", c.entity_ids),
            Column("has_trip_update", c.has_trip_update),
            Column("has_vehicle_position", c.has_vehicle_position),
            Column("has_alert", c.has_alert)>>)

TripUpdatesNew ==
    [entity_ids |-> << >>, trip_ids |-> << >>, route_ids |-> << >>,
     start_times |-> << >>, start_dates |-> << >>, num_stop_updates |-> << >>]

\* faulty variant of TripUpdatesPushTrip: start_dates is filled from start_time
TripUpdatesPushTripSlip(c, trip_update) ==
    IF IsSome(trip_update.trip)
    THEN LET trip == Unwrap(trip_update.trip) IN
         [c EXCEPT !.trip_ids = Append(@, UnwrapOr(trip.trip_id, "")),
                   !.route_ids = Append(@, UnwrapOr(trip.route_id, "")),
                   !.start_times = Append(@, UnwrapOr(trip.start_time, "")),
                   !.start_dates = Append(@, UnwrapOr(trip.start_time, ""))]
    ELSE [c EXCEPT !.trip_ids = Append(@, ""),
                   !.route_ids = Append(@, ""),
                   !.start_times = Append(@, ""),
                   !.start_dates = Append(@, "")]

\* the four pushes of the `if trip_update.trip.is_some()` statement
TripUpdatesPushTrip(c, trip_update) ==
    IF IsSome(trip_update.trip)
    THEN LET trip == Unwrap(trip_update.trip) IN
         [c EXCEPT !.trip_ids = Append(@, UnwrapOr(trip.trip_id, "")),
                   !.route_ids = Append(@, UnwrapOr(trip.route_id, "")),
                   !.start_times = Append(@, UnwrapOr(trip.start_time, "")),
                   !.start_dates = Append(@, UnwrapOr(trip.start_date, ""))]
    ELSE [c EXCEPT !.trip_ids = Append(@, ""),
                   !.route_ids = Append(@, ""),
                   !.start_times = Append(@, ""),
                   !.start_dates = Append(@, "")]

\* faulty variant of TripUpdatesPush: the variants are taken to exclude each
\* other, an entity that also has a VehiclePosition is skipped
TripUpdatesPushExclusive(c, entity) ==
    IF IsSome(entity.trip_update) /\ ~IsSome(entity.vehicle)
    THEN LET trip_update == Unwrap(entity.trip_update)
             c1 == [c EXCEPT !.entity_ids = Append(@, EntityId(entity))]
             c2 == TripUpdatesPushTrip(c1, trip_update)
         IN  [c2 EXCEPT !.num_stop_updates = Append(@, Len(trip_update.stop_time_update))]
    ELSE c

TripUpdatesPush(c, entity) ==
    IF IsSome(entity.trip_update)
    THEN LET trip_update == Unwrap(entity.trip_update)
             c1 == [c EXCEPT !.entity_ids = Append(@, EntityId(entity))]
             c2 == TripUpdatesPushTrip(c1, trip_update)
         IN  [c2 EXCEPT !.num_stop_updates = Append(@, Len(trip_update.stop_time_update))]
    ELSE c

TripUpdatesDf(c) ==
    DfNew(<<Column("entity_id", c.entity_ids),
            Column("trip_id", c.trip_ids),
            Column("route_id", c.route_ids),
            Column("start_time", c.start_times),
            Column("start_date", c.start_dates),
            Column("num_stop_updates", c.num_stop_updates)>>)

VehiclePositionsNew ==
    [entity_ids |-> << >>, vehicle_ids |-> << >>, vehicle_labels |-> << >>,
     latitudes |-> << >>, longitudes |-> << >>, bearings |-> << >>, speeds |-> << >>,
     trip_ids |-> << >>, route_ids |-> << >>]

\* the pushes of the `if vehicle.vehicle.is_some()` statement
VehiclePositionsPushDescriptor(c, vehicle) ==
    IF IsSome(vehicle.vehicle)
    THEN LET veh_desc == Unwrap(vehicle.vehicle) IN
         [c EXCEPT !.vehicle_ids = Append(@, UnwrapOr(veh_desc.id, "")),
                   !.vehicle_labels = Append(@, UnwrapOr(veh_desc.label, ""))]
    ELSE [c EXCEPT !.vehicle_ids = Append(@, ""),
                   !.vehicle_labels = Append(@, "")]

\* faulty variant of VehiclePositionsPushPosition: speeds is filled from bearing
VehiclePositionsPushPositionSlip(c, vehicle) ==
    IF IsSome(vehicle.position)
    THEN LET pos == Unwrap(vehicle.position) IN
         [c EXCEPT !.latitudes = Append(@, Latitude(pos)),
                   !.longitudes = Append(@, Longitude(pos)),
                   !.bearings = Append(@, UnwrapOr(pos.bearing, 0)),
                   !.speeds = Append(@, UnwrapOr(pos.bearing, 0))]
    ELSE [c EXCEPT !.latitudes = Append(@, 0),
                   !.longitudes = Append(@, 0),
                   !.bearings = Append(@, 0),
                   !.speeds = Append(@, 0)]

\* the pushes of the `if vehicle.position.is_some()` statement
VehiclePositionsPushPosition(c, vehicle) ==
    IF IsSome(vehicle.position)
    THEN LET pos == Unwrap(vehicle.position) IN
         [c EXCEPT !.latitudes = Append(@, Latitude(pos)),
                   !.longitudes = Append(@, Longitude(pos)),
                   !.bearings = Append(@, UnwrapOr(pos.bearing, 0)),
                   !.speeds = Append(@, UnwrapOr(pos.speed, 0))]
    ELSE [c EXCEPT !.latitudes = Append(@, 0),
                   !.longitudes = Append(@, 0),
                   !.bearings = Append(@, 0),
                   !.speeds = Append(@, 0)]

\* faulty variant of VehiclePositionsPushTrip: the else branch leaves route_ids
\* alone
VehiclePositionsPushTripShort(c, vehicle) ==
    IF IsSome(vehicle.trip)
    THEN LET trip == Unwrap(vehicle.trip) IN
         [c EXCEPT !.trip_ids = Append(@, UnwrapOr(trip.trip_id, "")),
                   !.route_ids = Append(@, UnwrapOr(trip.route_id, ""))]
    ELSE [c EXCEPT !.trip_ids = Append(@, "")]

\* the pushes of the `if vehicle.trip.is_some()` statement
VehiclePositionsPushTrip(c, vehicle) ==
    IF IsSome(vehicle.trip)
    THEN LET trip == Unwrap(vehicle.trip) IN
         [c EXCEPT !.trip_ids = Append(@, UnwrapOr(trip.trip_id, "")),
                   !.route_ids = Append(@, UnwrapOr(trip.route_id, ""))]
    ELSE [c EXCEPT !.trip_ids = Append(@, ""),
                   !.route_ids = Append(@, "")]

VehiclePositionsPush(c, entity) ==
    IF IsSome(entity.vehicle)
    THEN LET vehicle == Unwrap(entity.vehicle)
             c1 == [c EXCEPT !.entity_ids = Append(@, EntityId(entity))]
             c2 == VehiclePositionsPushDescriptor(c1, vehicle)
             c3 == VehiclePositionsPushPosition(c2, vehicle)
         IN  VehiclePositionsPushTrip(c3, vehicle)
    ELSE c

VehiclePositionsDf(c) ==
    DfNew(<<Column("entity_id", c.entity_ids),
            Column("vehicle_id", c.vehicle_ids),
            Column("vehicle_label", c.vehicle_labels),
            Column("latitude", c.latitudes),
            Column("longitude", c.longitudes),
            Column("bearing", c.bearings),
            Column("speed", c.speeds),
            Column("trip_id", c.trip_ids),
            Column("route_id", c.route_ids)>>)

----------------------------------------------------------------------------
(* What the payloads may decode to *)

\* the scenario of three entities: A has only a TripUpdate, B has only a
\* VehiclePosition, C has both
EntityA ==
    FeedEntity(Some("A"),
               Some(TripUpdate(Some(TripDescriptor(Some("T1"), Some("R1"), None, None)), 1)),
               None, None)

EntityB ==
    FeedEntity(Some("B"), None,
               Some(VehiclePosition(Some(VehicleDescriptor(Some("V1"), None)),
                                    Some(Position(Some(52), Some(16), Some(90), None)),
                                    None)),
               None)

EntityC ==
    FeedEntity(Some("C"),
               Some(TripUpdate(None, 0)),
               Some(VehiclePosition(None, None,
                                    Some(TripDescriptor(Some("T2"), None, None, None)))),
               None)

Scenario == <<EntityA, EntityB, EntityC>>

Malformed == Err("DecodeError")

DecodedFrom(S) == {Malformed} \cup {Ok(m) : m \in SeqsUpTo(S, MaxEntities)}

\* a feed of the scenario, or malformed bytes
TinyFeeds == {Malformed, Ok(Scenario)}

\* feeds over the scenario's entities
BasicFeeds == DecodedFrom({EntityA, EntityB, EntityC})

\* feeds whose entities carry every subset of the three variants, with and
\* without an id
SummaryFeeds ==
    DecodedFrom({FeedEntity(Some("e"), tu, veh, alert) :
                    tu \in {None, EntityA.trip_update},
                    veh \in {None, EntityB.vehicle},
                    alert \in {None, Some("alert")}}
                \cup {FeedEntity(None, None, None, None)})

OptionOf(S) == {None} \cup {Some(x) : x \in S}

\* feeds whose trip updates have no descriptor (and 0..MaxStops stop time
\* updates) or a descriptor with every subset of its four fields set
TripUpdateFeeds ==
    DecodedFrom({EntityB}
                \cup {FeedEntity(Some("e"), Some(TripUpdate(None, n)), None, None) :
                        n \in 0..MaxStops}
                \cup {FeedEntity(Some("e"),
                                 Some(TripUpdate(Some(TripDescriptor(t, r, st, sd)), 1)),
                                 None, None) :
                        t \in OptionOf({"T1"}), r \in OptionOf({"R1"}),
                        st \in OptionOf({"10:00:00"}), sd \in OptionOf({"20250101"})})

\* feeds whose vehicle positions have no Position, or a Position whose
\* bearing and speed are each unset, 0.0 or another value
VehiclePositionFeeds ==
    DecodedFrom({EntityA}
                \cup {FeedEntity(Some("e"), None, Some(VehiclePosition(None, None, None)), None)}
                \cup {FeedEntity(Some("e"), None,
                                 Some(VehiclePosition(None,
                                                      Some(Position(ll, Some(16), b, sp)),
                                                      None)),
                                 None) :
                        ll \in OptionOf({52}), b \in OptionOf({0, 90}), sp \in OptionOf({0, 7})})

\* the table read from a well-formed vehicle_dictionary.csv
DictionaryDf == <<Column("vehicle_id", <<"V1">>), Column("model", <<"Solaris">>)>>

CsvOutcomes == {Err("ComputeError"), Ok(DictionaryDf)}

\* what FeedMessage::parse_from_bytes(bytes) may return: bytes that are not
\* a whole body (no header) do not decode
ParseFromBytes(bytes, Dom) ==
    IF \E i \in Tasks : bytes = ServerBody(Url(files[i])) THEN Dom ELSE {Malformed}

----------------------------------------------------------------------------
(* main after the fetch *)

Fetched == <<task, data, saved_error, d>>

Dfs == <<feeds_df, trip_updates_df, vehicle_positions_df>>

SetDf(f, t) ==
    /\ feeds_df' = IF f = "feeds" THEN t ELSE feeds_df
    /\ trip_updates_df' = IF f = "trip_updates" THEN t ELSE trip_updates_df
    /\ vehicle_positions_df' = IF f = "vehicle_positions" THEN t ELSE vehicle_positions_df

\* `let <f>_df = <r>?`: an Err returns from main
Question(r, f, nextpc) ==
    IF r.ok
    THEN /\ SetDf(f, r.val)
         /\ pc' = nextpc
         /\ UNCHANGED result
    ELSE /\ result' = "Err"
         /\ pc' = "done"
         /\ UNCHANGED Dfs

\* CsvReader::new(Cursor::new(vehicle_dictionary))...finish()?
LoadDictionary ==
    /\ pc = "dict"
    /\ \E r \in CsvOutcomes :
         IF r.ok
         THEN /\ vehicle_dictionary_df' = r.val
              /\ pc' = "parse_feeds"
              /\ UNCHANGED result
         ELSE /\ result' = "Err"
              /\ pc' = "done"
              /\ UNCHANGED vehicle_dictionary_df
    /\ UNCHANGED <<parsed, cols, idx, stdout, stderr>>
    /\ UNCHANGED Dfs
    /\ UNCHANGED Fetched

\* `match FeedMessage::parse_from_bytes(bytes)`: the Ok arm up to its loop,
\* or the whole Err arm
Match(f, bytes, Dom, new, msg, looppc, nextpc) ==
    /\ \E r \in ParseFromBytes(bytes, Dom) :
         IF r.ok
         THEN /\ parsed' = [parsed EXCEPT ![f] = [state |-> "ok", entity |-> r.val]]
              /\ cols' = new
              /\ idx' = 1
              /\ pc' = looppc
              /\ UNCHANGED <<result, stderr>>
              /\ UNCHANGED Dfs
         ELSE /\ parsed' = [parsed EXCEPT ![f] = [state |-> "err", entity |-> << >>]]
              /\ stderr' = Append(stderr, msg)
              /\ Question(ErrorDf(msg), f, nextpc)
              /\ UNCHANGED <<cols, idx>>
    /\ UNCHANGED <<vehicle_dictionary_df, stdout>>
    /\ UNCHANGED Fetched

\* one iteration of `for entity in &feed.entity`
Iterate(f, pushed) ==
    /\ idx <= Len(parsed[f].entity)
    /\ cols' = pushed
    /\ idx' = idx + 1
    /\ UNCHANGED <<pc, result, parsed, vehicle_dictionary_df, stdout, stderr>>
    /\ UNCHANGED Dfs
    /\ UNCHANGED Fetched

\* the loop is over: `df!(...)?` ends the Ok arm
EndArm(f, r, nextpc) ==
    /\ idx > Len(parsed[f].entity)
    /\ Question(r, f, nextpc)
    /\ cols' = << >>
    /\ idx' = 0
    /\ UNCHANGED <<parsed, vehicle_dictionary_df, stdout, stderr>>
    /\ UNCHANGED Fetched

ParseFeeds(Dom) ==
    /\ pc = "parse_feeds"
    /\ Match("feeds", d[1], Dom, FeedsNew, "Failed to parse feeds",
             "loop_feeds", "parse_trip_updates")

LoopFeeds ==
    /\ pc = "loop_feeds"
    /\ Iterate("feeds", FeedsPush(cols, parsed["feeds"].entity[idx]))

BuildFeedsDf ==
    /\ pc = "loop_feeds"
    /\ EndArm("feeds", FeedsDf(cols), "parse_trip_updates")

ParseTripUpdates(Dom) ==
    /\ pc = "parse_trip_updates"
    /\ Match("trip_updates", d[2], Dom, TripUpdatesNew, "Failed to parse trip updates",
             "loop_trip_updates", "parse_vehicle_positions")

LoopTripUpdates ==
    /\ pc = "loop_trip_updates"
    /\ Iterate("trip_updates", TripUpdatesPush(cols, parsed["trip_updates"].entity[idx]))

BuildTripUpdatesDf ==
    /\ pc = "loop_trip_updates"
    /\ EndArm("trip_updates", TripUpdatesDf(cols), "parse_vehicle_positions")

ParseVehiclePositions(Dom) ==
    /\ pc = "parse_vehicle_positions"
    /\ Match("vehicle_positions", d[3], Dom, VehiclePositionsNew,
             "Failed to parse vehicle positions", "loop_vehicle_positions", "report")

LoopVehiclePositions ==
    /\ pc = "loop_vehicle_positions"
    /\ Iterate("vehicle_positions",
               VehiclePositionsPush(cols, parsed["vehicle_positions"].entity[idx]))

BuildVehiclePositionsDf ==
    /\ pc = "loop_vehicle_positions"
    /\ EndArm("vehicle_positions", VehiclePositionsDf(cols), "report")

\* println!("\n=== <title> ==="), the table, its column names
Section(title, df) == [title |-> title, table |-> df, columns |-> ColumnNames(df)]

Report ==
    /\ pc = "report"
    /\ stdout' = stdout \o <<Section("Vehicle Dictionary", vehicle_dictionary_df),
                             Section("Feeds", feeds_df),
                             Section("Trip Updates", trip_updates_df),
                             Section("Vehicle Positions", vehicle_positions_df)>>
    /\ pc' = "speed"
    /\ UNCHANGED <<result, parsed, vehicle_dictionary_df, cols, idx, stderr>>
    /\ UNCHANGED Dfs
    /\ UNCHANGED Fetched

\* println!("{:?}", vehicle_positions_df.column("speed")?.mean_reduce()), the
\* two times, Ok(())
ReportSpeed ==
    /\ pc = "speed"
    /\ LET c == DfColumn(vehicle_positions_df, "speed") IN
         IF c.ok
         THEN /\ stdout' = Append(stdout,
                     [title |-> "mean", table |-> MeanReduce(vehicle_positions_df[c.val].values),
                      columns |-> <<"speed">>])
              /\ result' = "Ok"
         ELSE /\ result' = "Err"
              /\ UNCHANGED stdout
    /\ pc' = "done"
    /\ UNCHANGED <<parsed, vehicle_dictionary_df, cols, idx, stderr>>
    /\ UNCHANGED Dfs
    /\ UNCHANGED Fetched

Fetching ==
    \/ \E i \in Tasks : StartFetch(i)
    \/ \E i \in Tasks : SkipFetch(i)
    \/ \E i \in Tasks : WriteFunction(i)
    \/ \E i \in Tasks : FetchOk(i)
    \/ \E i \in Tasks : FetchErr(i)
    \/ Join

Flattening ==
    \/ LoopFeeds
    \/ BuildFeedsDf
    \/ LoopTripUpdates
    \/ BuildTripUpdatesDf
    \/ LoopVehiclePositions
    \/ BuildVehiclePositionsDf

Reporting ==
    \/ Report
    \/ ReportSpeed

\* each of the three feeds decodes to any feed over the scenario's entities
Next ==
    \/ Fetching
    \/ LoadDictionary
    \/ ParseFeeds(BasicFeeds)
    \/ ParseTripUpdates(BasicFeeds)
    \/ ParseVehiclePositions(BasicFeeds)
    \/ Flattening
    \/ Reporting

Spec == Init /\ [][Next]_vars

\* feeds.pb decodes to any feed of SummaryFeeds
NextSummary ==
    \/ Fetching
    \/ LoadDictionary
    \/ ParseFeeds(SummaryFeeds)
    \/ ParseTripUpdates(TinyFeeds)
    \/ ParseVehiclePositions(TinyFeeds)
    \/ Flattening
    \/ Reporting

SpecSummary == Init /\ [][NextSummary]_vars

\* trip_updates.pb decodes to any feed of TripUpdateFeeds
NextTripUpdates ==
    \/ Fetching
    \/ LoadDictionary
    \/ ParseFeeds(TinyFeeds)
    \/ ParseTripUpdates(TripUpdateFeeds)
    \/ ParseVehiclePositions(TinyFeeds)
    \/ Flattening
    \/ Reporting

SpecTripUpdates == Init /\ [][NextTripUpdates]_vars

\* vehicle_positions.pb decodes to any feed of VehiclePositionFeeds
NextVehiclePositions ==
    \/ Fetching
    \/ LoadDictionary
    \/ ParseFeeds(TinyFeeds)
    \/ ParseTripUpdates(TinyFeeds)
    \/ ParseVehiclePositions(VehiclePositionFeeds)
    \/ Flattening
    \/ Reporting

SpecVehiclePositions == Init /\ [][NextVehiclePositions]_vars

----------------------------------------------------------------------------
(* Properties *)

FeedNames == {"feeds", "trip_updates", "vehicle_positions"}

DfOf(f) ==
    IF f = "feeds" THEN feeds_df
    ELSE IF f = "trip_updates" THEN trip_updates_df
    ELSE vehicle_positions_df

LoopOf(f) ==
    IF f = "feeds" THEN "loop_feeds"
    ELSE IF f = "trip_updates" THEN "loop_trip_updates"
    ELSE "loop_vehicle_positions"

HasTripUpdate(entity) == entity.trip_update # None

HasVehicle(entity) == entity.vehicle # None

\* the entities a flattener keeps
Kept(f, entities) ==
    IF f = "feeds" THEN entities
    ELSE IF f = "trip_updates" THEN SelectSeq(entities, HasTripUpdate)
    ELSE SelectSeq(entities, HasVehicle)

IdOf(entity) == IF entity.id = None THEN "" ELSE entity.id[1]

Ids(entities) == [k \in 1..Len(entities) |-> IdOf(entities[k])]

\* the values of the column called name
Values(df, name) == df[CHOOSE k \in 1..Len(df) : df[k].name = name].values

AllFetched == \A i \in Tasks : task[i] = "ok"

DictionaryLoaded == vehicle_dictionary_df # << >>

NoFeedDecoded == \A f \in FeedNames : parsed[f].state = "none"

\* C1: with all four fetches and the dictionary load successful, main
\* returns Ok whatever the decode outcomes of the three feeds are
C1_DecodeFailureNeverAborts ==
    (pc = "done" /\ AllFetched /\ DictionaryLoaded) => result = "Ok"

RECURSIVE FlattenAlone(_, _, _)
\* the column vectors after the entities alone went through the loop of f
FlattenAlone(f, c, entities) ==
    IF entities = << >> THEN c
    ELSE FlattenAlone(f,
                      IF f = "feeds" THEN FeedsPush(c, Head(entities))
                      ELSE IF f = "trip_updates" THEN TripUpdatesPush(c, Head(entities))
                      ELSE VehiclePositionsPush(c, Head(entities)),
                      Tail(entities))

\* the table of feed f when nothing but its own payload had been processed
TableAlone(f) ==
    IF f = "feeds" THEN FeedsDf(FlattenAlone(f, FeedsNew, parsed[f].entity)).val
    ELSE IF f = "trip_updates"
         THEN TripUpdatesDf(FlattenAlone(f, TripUpdatesNew, parsed[f].entity)).val
         ELSE VehiclePositionsDf(FlattenAlone(f, VehiclePositionsNew, parsed[f].entity)).val

OnlyMalformed(f) ==
    /\ parsed[f].state = "err"
    /\ \A g \in FeedNames \ {f} : parsed[g].state = "ok"

TablesBuilt == pc \in {"report", "speed", "done"} /\ vehicle_positions_df # << >>

\* C2: when exactly one feed is malformed, its table is one row of one
\* column named error, and the other two tables are the ones their own
\* payloads give
C2_MalformedFeedIsolated ==
    \A f \in FeedNames :
        (TablesBuilt /\ OnlyMalformed(f)) =>
            /\ ColumnNames(DfOf(f)) = <<"error">>
            /\ Height(DfOf(f)) = 1
            /\ \A g \in FeedNames \ {f} : DfOf(g) = TableAlone(g)

C2_Witness ==
    /\ pc = "done"
    /\ OnlyMalformed("trip_updates")
    /\ Len(parsed["feeds"].entity) = 2
    /\ Height(vehicle_positions_df) = 1

FetchFailed == \E i \in Tasks : task[i] = "err"

DictionaryFailed == pc = "done" /\ d # << >> /\ ~DictionaryLoaded

\* C3: once a fetch has failed, or the dictionary load has failed, no feed
\* is decoded, nothing is printed and main returns Err
C3_FatalErrorAborts ==
    /\ FetchFailed =>
          /\ pc \in {"fetch", "done"}
          /\ d = << >>
          /\ NoFeedDecoded
          /\ stdout = << >>
          /\ pc = "done" => result = "Err"
    /\ DictionaryFailed =>
          /\ NoFeedDecoded
          /\ stdout = << >>
          /\ result = "Err"

C3_Witness ==
    /\ pc = "done"
    /\ result = "Err"
    /\ task[3] = "err"
    /\ task[1] = "ok"
    /\ task[4] = "ok"

\* C4: the collected payloads are index-aligned with files, payload i being
\* the body served for files[i], and a step changes the buffer of at most one
\* fetch, which is a running one
C4_PayloadsIndexAligned ==
    /\ [](d # << >> =>
            /\ Len(d) = Len(files)
            /\ \A i \in Tasks : d[i] = ServerBody(Url(files[i])))
    /\ [][\A i \in Tasks :
            data'[i] # data[i] =>
                /\ task[i] = "running" \/ task'[i] = "running"
                /\ \A j \in Tasks \ {i} : data'[j] = data[j]]_vars

C4_Witness ==
    /\ pc = "dict"
    /\ Len(d) = 4
    /\ \A i \in Tasks : Len(d[i]) = NumChunks /\ d[i][1][1] = files[i]

\* C5: the summary table of a decoded feed has one row per entity, row k
\* carrying the id and the three presence flags of entity k
C5_SummaryRowPerEntity ==
    (feeds_df # << >> /\ parsed["feeds"].state = "ok") =>
        LET entities == parsed["feeds"].entity IN
        /\ ColumnNames(feeds_df) =
              <<"entity_id", "has_trip_update", "has_vehicle_position", "has_alert">>
        /\ Height(feeds_df) = Len(entities)
        /\ Values(feeds_df, "entity_id") = Ids(entities)
        /\ Values(feeds_df, "has_trip_update") =
              [k \in 1..Len(entities) |-> entities[k].trip_update # None]
        /\ Values(feeds_df, "has_vehicle_position") =
              [k \in 1..Len(entities) |-> entities[k].vehicle # None]
        /\ Values(feeds_df, "has_alert") =
              [k \in 1..Len(entities) |-> entities[k].alert # None]

C5_Witness ==
    /\ feeds_df # << >>
    /\ parsed["feeds"].state = "ok"
    /\ Height(feeds_df) = 2
    /\ Values(feeds_df, "entity_id") = <<"", "e">>
    /\ Values(feeds_df, "has_trip_update") = <<FALSE, TRUE>>
    /\ Values(feeds_df, "has_vehicle_position") = <<FALSE, TRUE>>
    /\ Values(feeds_df, "has_alert") = <<FALSE, TRUE>>

\* C6: the trip-update table has one row per entity with a TripUpdate and
\* the vehicle-position table one row per entity with a VehiclePosition, in
\* the order of the feed, and no row for any other entity
C6_FilteredRowPerVariant ==
    /\ (trip_updates_df # << >> /\ parsed["trip_updates"].state = "ok") =>
          LET entities == parsed["trip_updates"].entity IN
          /\ Height(trip_updates_df) =
                Cardinality({k \in 1..Len(entities) : entities[k].trip_update # None})
          /\ Values(trip_updates_df, "entity_id") = Ids(SelectSeq(entities, HasTripUpdate))
    /\ (vehicle_positions_df # << >> /\ parsed["vehicle_positions"].state = "ok") =>
          LET entities == parsed["vehicle_positions"].entity IN
          /\ Height(vehicle_positions_df) =
                Cardinality({k \in 1..Len(entities) : entities[k].vehicle # None})
          /\ Values(vehicle_positions_df, "entity_id") = Ids(SelectSeq(entities, HasVehicle))

C6_Witness ==
    /\ pc = "report"
    /\ parsed["trip_updates"].entity = <<EntityB, EntityC>>
    /\ parsed["vehicle_positions"].entity = <<EntityC, EntityA>>
    /\ Values(trip_updates_df, "entity_id") = <<"C">>
    /\ Values(vehicle_positions_df, "entity_id") = <<"C">>

\* the value a TripDescriptor field gives a column
Defaulted(field) == IF field = None THEN "" ELSE field[1]

\* C7: a row of an entity whose TripUpdate has no TripDescriptor has the
\* four descriptor columns empty and num_stop_updates the number of stop time
\* updates; with a TripDescriptor each of the four columns is the field, or
\* empty when that field is unset
C7_TripDescriptorDefaults ==
    (trip_updates_df # << >> /\ parsed["trip_updates"].state = "ok") =>
        LET kept == SelectSeq(parsed["trip_updates"].entity, HasTripUpdate) IN
        /\ Height(trip_updates_df) = Len(kept)
        /\ \A k \in 1..Len(kept) :
              LET tu == kept[k].trip_update[1] IN
              /\ Values(trip_updates_df, "num_stop_updates")[k] = Len(tu.stop_time_update)
              /\ tu.trip = None =>
                    /\ Values(trip_updates_df, "trip_id")[k] = ""
                    /\ Values(trip_updates_df, "route_id")[k] = ""
                    /\ Values(trip_updates_df, "start_time")[k] = ""
                    /\ Values(trip_updates_df, "start_date")[k] = ""
              /\ tu.trip # None =>
                    /\ Values(trip_updates_df, "trip_id")[k] = Defaulted(tu.trip[1].trip_id)
                    /\ Values(trip_updates_df, "route_id")[k] = Defaulted(tu.trip[1].route_id)
                    /\ Values(trip_updates_df, "start_time")[k] = Defaulted(tu.trip[1].start_time)
                    /\ Values(trip_updates_df, "start_date")[k] = Defaulted(tu.trip[1].start_date)

C7_Witness ==
    /\ trip_updates_df # << >>
    /\ parsed["trip_updates"].state = "ok"
    /\ Len(parsed["trip_updates"].entity) = 2
    /\ parsed["trip_updates"].entity[1].trip_update = Some(TripUpdate(None, 0))
    /\ Values(trip_updates_df, "trip_id") = <<"", "">>
    /\ Values(trip_updates_df, "route_id") = <<"", "R1">>
    /\ Values(trip_updates_df, "start_time") = <<"", "">>
    /\ Values(trip_updates_df, "start_date") = <<"", "20250101">>
    /\ Values(trip_updates_df, "num_stop_updates") = <<0, 1>>

VehiclePositionsBuilt ==
    vehicle_positions_df # << >> /\ parsed["vehicle_positions"].state = "ok"

VehiclesKept == SelectSeq(parsed["vehicle_positions"].entity, HasVehicle)

PositionAbsentZeros(vehicle, k) ==
    vehicle.position = None =>
        /\ Values(vehicle_positions_df, "latitude")[k] = 0
        /\ Values(vehicle_positions_df, "longitude")[k] = 0
        /\ Values(vehicle_positions_df, "bearing")[k] = 0
        /\ Values(vehicle_positions_df, "speed")[k] = 0

ZeroExactlyWhenUnset(vehicle, k) ==
    /\ PositionAbsentZeros(vehicle, k)
    /\ vehicle.position # None =>
          /\ Values(vehicle_positions_df, "bearing")[k] = 0
                <=> vehicle.position[1].bearing = None
          /\ Values(vehicle_positions_df, "speed")[k] = 0
                <=> vehicle.position[1].speed = None

ZeroWhenUnsetElseField(vehicle, k) ==
    /\ PositionAbsentZeros(vehicle, k)
    /\ vehicle.position # None =>
          LET pos == vehicle.position[1] IN
          /\ Values(vehicle_positions_df, "bearing")[k] =
                (IF pos.bearing = None THEN 0 ELSE pos.bearing[1])
          /\ Values(vehicle_positions_df, "speed")[k] =
                (IF pos.speed = None THEN 0 ELSE pos.speed[1])

\* C8 as claimed: without a Position the four columns are 0.0; with one,
\* bearing and speed are 0.0 exactly when the field is unset
C8_ZeroExactlyWhenUnset ==
    VehiclePositionsBuilt =>
        /\ Height(vehicle_positions_df) = Len(VehiclesKept)
        /\ \A k \in 1..Len(VehiclesKept) : ZeroExactlyWhenUnset(VehiclesKept[k].vehicle[1], k)

\* C8 as amended: without a Position the four columns are 0.0; with one,
\* bearing and speed are each 0.0 when the field is unset and the value of the
\* field when it is set, which may itself be 0.0
C8_ZeroWhenUnsetElseField ==
    VehiclePositionsBuilt =>
        /\ Height(vehicle_positions_df) = Len(VehiclesKept)
        /\ \A k \in 1..Len(VehiclesKept) : ZeroWhenUnsetElseField(VehiclesKept[k].vehicle[1], k)

C8_Witness ==
    /\ vehicle_positions_df # << >>
    /\ parsed["vehicle_positions"].state = "ok"
    /\ Len(parsed["vehicle_positions"].entity) = 2
    /\ Len(VehiclesKept) = 2
    /\ VehiclesKept[1].vehicle[1].position = None
    /\ VehiclesKept[2].vehicle[1].position # None
    /\ VehiclesKept[2].vehicle[1].position[1].bearing = Some(0)
    /\ VehiclesKept[2].vehicle[1].position[1].speed = None
    /\ Values(vehicle_positions_df, "bearing") = <<0, 0>>
    /\ Values(vehicle_positions_df, "speed") = <<0, 0>>

\* a dictionary, decode or flatten step has begun
StepBegun ==
    \/ pc \notin {"fetch", "done"}
    \/ DictionaryLoaded
    \/ ~NoFeedDecoded

\* C9: a dictionary, decode or flatten step begins only when all four
\* fetches are over and their four whole payloads are there, and the steps
\* come in the order dictionary, feeds, trip updates, vehicle positions
C9_StepsAfterAllFetches ==
    /\ StepBegun =>
          /\ AllFetched
          /\ Len(d) = Len(files)
          /\ \A i \in Tasks : Len(d[i]) = NumChunks
    /\ parsed["feeds"].state # "none" => DictionaryLoaded
    /\ parsed["trip_updates"].state # "none" =>
          parsed["feeds"].state # "none" /\ feeds_df # << >>
    /\ parsed["vehicle_positions"].state # "none" =>
          parsed["trip_updates"].state # "none" /\ trip_updates_df # << >>
    /\ pc \in {"loop_feeds", "parse_trip_updates"} => parsed["trip_updates"].state = "none"
    /\ pc \in {"loop_feeds", "parse_trip_updates", "loop_trip_updates",
               "parse_vehicle_positions"} => parsed["vehicle_positions"].state = "none"

C9_Witness ==
    /\ pc = "loop_vehicle_positions"
    /\ idx = 2
    /\ parsed["feeds"].state = "ok"
    /\ parsed["trip_updates"].state = "ok"

InLoop(f) == pc = LoopOf(f)

\* C10: in each loop, after every iteration, all column vectors are as long
\* as the number of entities kept so far, and a decoded feed always gets its
\* table
C10_ColumnsEqualLength ==
    \A f \in FeedNames :
        /\ InLoop(f) =>
              \A name \in DOMAIN cols :
                  Len(cols[name]) = Len(Kept(f, SubSeq(parsed[f].entity, 1, idx - 1)))
        /\ (parsed[f].state = "ok" /\ ~InLoop(f)) => DfOf(f) # << >>

C10_Witness ==
    /\ pc = "loop_vehicle_positions"
    /\ idx = 3
    /\ parsed["vehicle_positions"].entity = <<EntityA, EntityB>>
    /\ Len(cols.route_ids) = 1

====
